---- MODULE Spec2Model ----
(***************************************************************************)
(* Model of the recursive research orchestrator (src/src/deep-research.ts) *)
(* An invocation of deepResearch is named by its path in the call tree:    *)
(* the top-level call is <<>>, and the call made by the k-th branch of     *)
(* invocation i is Append(i, k).  The k-th branch task of invocation i is  *)
(* named Append(i, k) as well.  One action is one completion of an awaited *)
(* external call (planner, crawler, synthesizer); everything the event     *)
(* loop runs in microtasks after it (p-limit admission, Promise.all, the   *)
(* return of the enclosing calls) is part of the same action.              *)
(* The pure functions are followed on their own: PlannerSpec applies the   *)
(* query planner's normalisation (generateSerpQueries) to every answer of  *)
(* the generation call, TrimSpec runs trimPrompt (src/unnamed/part_000)    *)
(* call by call on texts given by their length and their kind.             *)
(***************************************************************************)
EXTENDS Integers, Sequences, FiniteSets, TLC

\* inv, br: the call tree of the orchestrator; fn: the call of a pure function
\* (the query planner's normalisation, trimPrompt) that is being followed
VARIABLES inv, br, fn

vars == <<inv, br, fn>>

\* ---------------------------------------------------------------- constants
ConcurrencyLimit == 2

\* src/unnamed/part_000 line 203
MinChunkSize == 140

\* ------------------------------------------------------------------- bounds
\* largest depth of the top-level call
MaxDepth == 3
\* longest list of queries the planner's generation call answers
MaxGen == 3
\* largest call tree explored: invocations plus branch tasks
MaxNodes == 5

\* longest text given to trimPrompt, in characters
MaxLen == 150

\* ------------------------------------------------------------------- inputs
BreadthValues == {1, 2, 3, 7}

\* the lists of content items a crawl can print
ItemLists == {<<>>, <<[sourceURL |-> "u1"]>>}

\* the lists of learnings a synthesis can answer
LearningLists == {<<>>, <<"l1">>, <<"l1", "l2">>}

\* ------------------------------------------------------------------ helpers
Min(a, b) == IF a <= b THEN a ELSE b

Range(s) == {s[k] : k \in 1..Len(s)}

Front(p) == SubSeq(p, 1, Len(p) - 1)

Last(p) == p[Len(p)]

SeqsUpTo(S, n) == UNION {[1..k -> S] : k \in 0..n}

NoDup(s) == \A j, k \in 1..Len(s) : s[j] = s[k] => j = k

EmptyResult == [learnings |-> <<>>, visitedUrls |-> <<>>]

\* (variant: the concatenation returned as it is)
NoDedup(s) == s

\* [...new Set(s)]: first occurrences, in insertion order
RECURSIVE Dedup(_)
Dedup(s) ==
  IF s = <<>> THEN <<>>
  ELSE LET d == Dedup(Front(s))
       IN IF Last(s) \in Range(d) THEN d ELSE Append(d, Last(s))

\* (variant: Math.floor)
newBreadthFloor(breadth) == breadth \div 2

\* line 224: Math.ceil(breadth / 2)
newBreadthOf(breadth) == (breadth + 1) \div 2

\* (variant: the depth passed on unchanged)
newDepthSame(depth) == depth

\* line 225: depth - 1
newDepthOf(depth) == depth - 1

\* ------------------------------------------------------------ query planner
\* what the generation call can answer: bare strings or {query, researchGoal}
\* (one answer of every length up to MaxGen, mixing the two forms)
RawQueries ==
  {[k \in 1..n |-> IF k % 2 = 1 THEN "obj" ELSE "str"] : n \in 0..MaxGen}

DefaultGoal == "Explore this query to gather relevant information for the research topic."

processedQueries(raw) ==
  [k \in 1..Len(raw) |->
     IF raw[k] = "str" THEN [query |-> k, researchGoal |-> DefaultGoal]
     ELSE [query |-> k, researchGoal |-> "goal"]]

\* (variant: the processed queries returned without the slice)
generateSerpQueriesAll(raw, numQueries) == processedQueries(raw)

generateSerpQueries(raw, numQueries) ==
  SubSeq(processedQueries(raw), 1, Min(Len(raw), numQueries))

\* ------------------------------------------------------- retrieval adapter
\* what the crawler process can produce
\*   json       stdout parses to a list of items
\*   jsonOther  stdout parses, but not to a list of items (e.g. null)
\*   parseError stdout does not parse
\*   execError  the process fails
CrawlOutputs ==
  [kind : {"json"}, items : ItemLists]
    \cup [kind : {"execError", "parseError", "jsonOther"}, items : {<<>>}]

\* (variant: crawlWebsite without its try/catch blocks)
crawlThrowsUncaught(out) == out.kind # "json"

\* lines 21-40 and 223: does an error reach the branch?  Not from
\* crawlWebsite, which catches its own; but result.map throws on a value
\* that is no list of items
crawlThrows(out) == out.kind = "jsonOther"

crawlWebsite(out) == IF out.kind = "json" THEN out.items ELSE <<>>

crawlStatus(out) ==
  CASE out.kind = "json" -> "ok"
    [] out.kind = "jsonOther" -> "other"
    [] OTHER -> "failed"

\* (variant: the search query is recorded as a visited URL too)
newUrlsWithQuery(result) ==
  <<"query">> \o [k \in 1..Len(result) |-> result[k].sourceURL]

\* line 223: result.map(item => item.metadata.sourceURL)
newUrlsOf(result) == [k \in 1..Len(result) |-> result[k].sourceURL]

\* ------------------------------------------------------------- synthesizer
\* what the synthesis generation call can answer (ok = FALSE: error or timeout)
SynthOutputs ==
  [ok : {TRUE}, learnings : LearningLists]
    \cup [ok : {FALSE}, learnings : {<<>>}]

\* ------------------------------------------------------------ orchestrator
Children(b, i) == {p \in DOMAIN b : Len(p) = Len(i) + 1 /\ Front(p) = i}

InFlight(b) == b.state \in {"retrieving", "synthesizing", "recursing"}

\* (variant: one limiter for the whole call tree)
activeCountGlobal(st, i) ==
  Cardinality({p \in DOMAIN st.br : InFlight(st.br[p])})

\* line 214: activeCount of the limiter created by invocation i
activeCount(st, i) ==
  Cardinality({p \in Children(st.br, i) : InFlight(st.br[p])})

pendingCount(st, i) ==
  Cardinality({p \in Children(st.br, i) : st.br[p].state = "queued"})

\* (variant: no limit, every queued task is admitted)
freeSlotsUnlimited(st, i) == pendingCount(st, i)

\* line 214: free slots of the limiter of invocation i
freeSlots(st, i) == ConcurrencyLimit - activeCount(st, i)

\* (variant: a limiter that starts every queued task at once)
AdmitAll(st, i) ==
  [st EXCEPT !.br =
     [p \in DOMAIN st.br |->
        IF Front(p) = i /\ st.br[p].state = "queued"
        THEN [st.br[p] EXCEPT !.state = "retrieving"]
        ELSE st.br[p]]]

\* p-limit: dequeue, in FIFO order, as many queued tasks as there are free
\* slots; a started task runs up to its first await (the crawler)
Admit(st, i) ==
  LET n == Cardinality(Children(st.br, i))
      s == n - pendingCount(st, i)
      k == Min(freeSlots(st, i), pendingCount(st, i))
  IN [st EXCEPT !.br =
        [p \in DOMAIN st.br |->
           IF Front(p) = i /\ Last(p) > s /\ Last(p) <= s + k
           THEN [st.br[p] EXCEPT !.state = "retrieving"]
           ELSE st.br[p]]]

\* (variant: only the result of the last branch is kept)
FlatMapLast(b, i, n, f) ==
  IF n = 0 THEN <<>> ELSE b[Append(i, n)].result[f]

RECURSIVE FlatMap(_, _, _, _)
FlatMap(b, i, n, f) ==
  IF n = 0 THEN <<>>
  ELSE FlatMap(b, i, n - 1, f) \o b[Append(i, n)].result[f]

\* lines 269-272
MergeResults(b, i) ==
  LET n == Cardinality(Children(b, i))
  IN [learnings |-> Dedup(FlatMap(b, i, n, "learnings")),
      visitedUrls |-> Dedup(FlatMap(b, i, n, "visitedUrls"))]

\* line 245: `return deepResearch(...)` inside the try block, not awaited:
\* the branch's promise adopts the child's outcome, rejection included
branchAdopt(ok, res) ==
  IF ok THEN [state |-> "done", result |-> res]
  ELSE [state |-> "rejected", result |-> EmptyResult]

RECURSIVE Settle(_, _, _, _, _)
RECURSIVE PromiseAll(_, _)

\* invocation i returns res (ok) or throws (~ok); the branch of the parent
\* that awaits it settles, its limiter slot is released, and the parent's
\* Promise.all looks at its branches again
Settle(st, i, ok, cause, res) ==
  LET st1 == [st EXCEPT !.inv[i].status = IF ok THEN "returned" ELSE "failed",
                        !.inv[i].cause = cause,
                        !.inv[i].res = res]
  IN IF i = <<>> THEN st1
     ELSE LET a == branchAdopt(ok, res)
              st2 == [st1 EXCEPT !.br[i].state = a.state,
                                 !.br[i].result = a.result]
          IN PromiseAll(Admit(st2, Front(i)), Front(i))

\* (variant: a Promise.all that waits for at least one branch)
PromiseAllNonEmpty(st, i) ==
  IF st.inv[i].status # "running" THEN st
  ELSE LET ch == Children(st.br, i)
       IN IF \E p \in ch : st.br[p].state = "rejected"
          THEN Settle(st, i, FALSE, "branch", EmptyResult)
          ELSE IF ch # {} /\ \A p \in ch : st.br[p].state = "done"
               THEN Settle(st, i, TRUE, "none", MergeResults(st.br, i))
               ELSE st

\* (variant: a Promise.all that resolves with the first finished branch)
PromiseAllFirst(st, i) ==
  IF st.inv[i].status # "running" THEN st
  ELSE LET ch == Children(st.br, i)
       IN IF \E p \in ch : st.br[p].state = "rejected"
          THEN Settle(st, i, FALSE, "branch", EmptyResult)
          ELSE IF ch = {} \/ \E p \in ch : st.br[p].state = "done"
               THEN Settle(st, i, TRUE, "none", MergeResults(st.br, i))
               ELSE st

\* lines 216-272: Promise.all rejects with the first rejection, resolves when
\* every branch promise has resolved
PromiseAll(st, i) ==
  IF st.inv[i].status # "running" THEN st
  ELSE LET ch == Children(st.br, i)
       IN IF \E p \in ch : st.br[p].state = "rejected"
          THEN Settle(st, i, FALSE, "branch", EmptyResult)
          ELSE IF \A p \in ch : st.br[p].state = "done"
               THEN Settle(st, i, TRUE, "none", MergeResults(st.br, i))
               ELSE st

\* a branch promise has settled: p-limit's next(), then Promise.all
BranchSettled(st, p) == PromiseAll(Admit(st, Front(p)), Front(p))

NewInv(b, d, ls, us) ==
  [breadth |-> b, depth |-> d, learnings |-> ls, visitedUrls |-> us,
   status |-> "planning", cause |-> "none", res |-> EmptyResult]

NewBranch ==
  [state |-> "queued", crawl |-> "none", crawled |-> <<>>, newUrls |-> <<>>,
   newLearnings |-> <<>>, err |-> "none", result |-> EmptyResult]

\* (variant: the catch block returns what the branch had so far)
catchResultSalvage(me, newUrls) ==
  [learnings |-> me.learnings, visitedUrls |-> me.visitedUrls \o newUrls]

\* lines 258-264: what the catch block of a branch returns
catchResult(me, newUrls) == EmptyResult

Cur == [inv |-> inv, br |-> br]

\* size of the call tree so far: invocations and branch tasks
Nodes == Cardinality(DOMAIN inv) + Cardinality(DOMAIN br)

\* no pure-function call is followed while the orchestrator runs
NoCall == [op |-> "none"]

Set(st) == inv' = st.inv /\ br' = st.br /\ fn' = fn

Init ==
  /\ \E b \in BreadthValues, d \in 0..MaxDepth :
       inv = (<<>> :> NewInv(b, d, <<>>, <<>>))
  /\ br = <<>>
  /\ fn = NoCall

\* lines 209-218: the planner answers; the branch tasks are handed to the
\* limiter and Promise.all starts waiting
PlanReturn(i, raw) ==
  /\ i \in DOMAIN inv
  /\ inv[i].status = "planning"
  /\ LET serpQueries == generateSerpQueries(raw, inv[i].breadth)
         n == Len(serpQueries)
         st1 == [inv |-> [inv EXCEPT ![i].status = "running"], br |-> br]
     IN /\ Nodes + n <= MaxNodes
        /\ LET st2 == [st1 EXCEPT !.br =
                         br @@ [p \in {Append(i, k) : k \in 1..n} |-> NewBranch]]
           IN Set(PromiseAll(Admit(st2, i), i))

\* (variant: a planner failure answered by an empty plan)
PlanFailFallback(i) ==
  /\ i \in DOMAIN inv
  /\ inv[i].status = "planning"
  /\ Set(Settle(Cur, i, TRUE, "planner", EmptyResult))

\* line 209: the planner call throws; nothing catches it in deepResearch
PlanFail(i) ==
  /\ i \in DOMAIN inv
  /\ inv[i].status = "planning"
  /\ Set(Settle(Cur, i, FALSE, "planner", EmptyResult))

\* lines 220-223: the crawler process ends
CrawlReturn(p, out) ==
  /\ p \in DOMAIN br
  /\ br[p].state = "retrieving"
  /\ IF crawlThrows(out)
     THEN Set(BranchSettled(
                [Cur EXCEPT !.br[p].state = "done",
                            !.br[p].crawl = crawlStatus(out),
                            !.br[p].err = "retrieval",
                            !.br[p].result = catchResult(inv[Front(p)], <<>>)],
                p))
     ELSE Set([Cur EXCEPT !.br[p].state = "synthesizing",
                          !.br[p].crawl = crawlStatus(out),
                          !.br[p].crawled = crawlWebsite(out),
                          !.br[p].newUrls = newUrlsOf(crawlWebsite(out))])

\* (variant: only what the branch itself discovered is passed on)
SpreadNewOnly(prior, new) == new

\* lines 232-233: [...learnings, ...newLearnings.learnings] and
\* [...visitedUrls, ...newUrls]: a new array, the inputs are left as they are
Spread(prior, new) == prior \o new

\* lines 227-264: the synthesis call ends
SynthReturn(p, out) ==
  /\ p \in DOMAIN br
  /\ br[p].state = "synthesizing"
  /\ LET me == inv[Front(p)]
         newBreadth == newBreadthOf(me.breadth)
         newDepth == newDepthOf(me.depth)
         allLearnings == Spread(me.learnings, out.learnings)
         allUrls == Spread(me.visitedUrls, br[p].newUrls)
     IN IF ~out.ok
        THEN Set(BranchSettled(
                   [Cur EXCEPT !.br[p].state = "done",
                               !.br[p].err = "synthesis",
                               !.br[p].result = catchResult(me, br[p].newUrls)],
                   p))
        ELSE IF newDepth > 0
             THEN Nodes + 1 <= MaxNodes /\
                  Set([Cur EXCEPT
                         !.br[p].state = "recursing",
                              !.br[p].newLearnings = out.learnings,
                              !.inv = inv @@ (p :> NewInv(newBreadth, newDepth,
                                                          allLearnings, allUrls))])
             ELSE Set(BranchSettled(
                        [Cur EXCEPT
                           !.br[p].state = "done",
                           !.br[p].newLearnings = out.learnings,
                           !.br[p].result = [learnings |-> allLearnings,
                                             visitedUrls |-> allUrls]], p))

Next ==
  \/ \E i \in DOMAIN inv, raw \in RawQueries : PlanReturn(i, raw)
  \/ \E i \in DOMAIN inv : PlanFail(i)
  \/ \E p \in DOMAIN br, out \in CrawlOutputs : CrawlReturn(p, out)
  \/ \E p \in DOMAIN br, out \in SynthOutputs : SynthReturn(p, out)

Spec == Init /\ [][Next]_vars

TypeOK ==
  /\ \A i \in DOMAIN inv :
       inv[i].status \in {"planning", "running", "returned", "failed"}
  /\ \A p \in DOMAIN br :
       /\ br[p].state \in {"queued", "retrieving", "synthesizing",
                           "recursing", "done", "rejected"}
       /\ Front(p) \in DOMAIN inv

\* ------------------------------------------- the query planner on its own
\* every answer of the generation call up to MaxGen entries, each entry a
\* bare string or an object
AllRawQueries == SeqsUpTo({"str", "obj"}, MaxGen)

\* the numQueries (breadth) the planner is called with: fewer than, as many
\* as and more than the generation call answers
NumQueriesValues == 0..(MaxGen + 1)

PlannerInit ==
  /\ inv = <<>>
  /\ br = <<>>
  /\ \E raw \in AllRawQueries, n \in NumQueriesValues :
       fn = [op |-> "plan", pc |-> "generating", raw |-> raw, numQueries |-> n,
             serpQueries |-> <<>>, tasks |-> 0]

\* lines 84-98 of generateSerpQueries: the generation call has answered
\* fn.raw; normalise and slice
PlannerReturn ==
  /\ fn.op = "plan"
  /\ fn.pc = "generating"
  /\ fn' = [fn EXCEPT !.pc = "planned",
                      !.serpQueries = generateSerpQueries(fn.raw, fn.numQueries)]
  /\ UNCHANGED <<inv, br>>

\* lines 216-218 of deepResearch: one branch task per planned query
StartTasks ==
  /\ fn.op = "plan"
  /\ fn.pc = "planned"
  /\ fn' = [fn EXCEPT !.pc = "started", !.tasks = Len(fn.serpQueries)]
  /\ UNCHANGED <<inv, br>>

PlannerNext == PlannerReturn \/ StartTasks

PlannerSpec == PlannerInit /\ [][PlannerNext]_vars

\* ------------------------------------------------------ the text budgeter
\* (src/unnamed/part_000, ai/providers.ts)
\* A text is given by its length in characters and its kind, which fixes how
\* many tokens the encoder counts for it; '' is the one text of length 0.
Empty == [len |-> 0, kind |-> "empty"]

Text(len, kind) == IF len <= 0 THEN Empty ELSE [len |-> len, kind |-> kind]

\* prose: about four characters per token; dense: one token per character;
\* rare: characters that take two tokens each
Kinds == {"prose", "dense", "rare"}

\* line 212: encoder.encode(prompt).length
encodeLength(prompt) ==
  CASE prompt.kind = "empty" -> 0
    [] prompt.kind = "prose" -> (prompt.len + 3) \div 4
    [] prompt.kind = "dense" -> prompt.len
    [] prompt.kind = "rare" -> 2 * prompt.len

\* prompt.slice(0, end), end >= 0
slice(prompt, end) == Text(Min(end, prompt.len), prompt.kind)

\* the texts trimPrompt is called with
TextLens == {1, 100, MinChunkSize, MinChunkSize + 1, MaxLen - 3, MaxLen}

TextInputs == {Empty} \cup {Text(l, k) : l \in TextLens, k \in Kinds}

\* the token budgets trimPrompt is called with
ContextSizes == 0..(2 * MaxLen)

\* (variant: a text of exactly contextSize tokens does not fit)
FitsStrict(length, contextSize) == length < contextSize

\* line 213: length <= contextSize
Fits(length, contextSize) == length <= contextSize

\* (variant: the overflow is not subtracted)
chunkSizeSame(prompt, contextSize) == prompt.len

\* lines 217-219: prompt.length - overflowTokens * 3
chunkSizeOf(prompt, contextSize) ==
  LET overflowTokens == encodeLength(prompt) - contextSize
  IN prompt.len - overflowTokens * 3

\* (variant: the floor cut keeps half of the text)
floorCutHalf(prompt) == slice(prompt, prompt.len \div 2)

\* line 221: prompt.slice(0, MinChunkSize)
floorCut(prompt) == slice(prompt, MinChunkSize)

\* RecursiveCharacterTextSplitter.splitText: the chunks it can return, as far
\* as the first one: none at all, an empty one, or a piece of the text of
\* any length up to the whole text
splitText(prompt, chunkSize) ==
  {<<>>} \cup {<<Text(l, prompt.kind)>> : l \in 0..prompt.len}

\* line 228: splitter.splitText(prompt)[0] ?? ''
firstChunk(chunks) == IF chunks = <<>> THEN Empty ELSE chunks[1]

\* input: the text of the first call; prompt: the argument of the call of
\* trimPrompt being executed; first: what the first call returned
NewTrim(input, text, contextSize, run, first) ==
  [op |-> "trim", input |-> input, contextSize |-> contextSize, run |-> run,
   pc |-> "call", prompt |-> text, via |-> "none", first |-> first,
   result |-> Empty]

TrimInit ==
  /\ inv = <<>>
  /\ br = <<>>
  /\ \E text \in TextInputs, n \in ContextSizes :
       fn = NewTrim(text, text, n, 1, Empty)

TrimReturn(value) == fn' = [fn EXCEPT !.pc = "ret", !.result = value]

\* lines 207-222: a call of trimPrompt up to the splitter
TrimEnter ==
  /\ fn.op = "trim"
  /\ fn.pc = "call"
  /\ IF fn.prompt = Empty
     THEN TrimReturn(Empty)
     ELSE IF Fits(encodeLength(fn.prompt), fn.contextSize)
          THEN TrimReturn(fn.prompt)
          ELSE IF chunkSizeOf(fn.prompt, fn.contextSize) < MinChunkSize
               THEN TrimReturn(floorCut(fn.prompt))
               ELSE fn' = [fn EXCEPT !.pc = "split"]
  /\ UNCHANGED <<inv, br>>

\* lines 224-236: the splitter has answered; the recursive call
TrimSplit(chunks) ==
  /\ fn.op = "trim"
  /\ fn.pc = "split"
  /\ LET chunkSize == chunkSizeOf(fn.prompt, fn.contextSize)
         trimmedPrompt == firstChunk(chunks)
     IN IF trimmedPrompt.len = fn.prompt.len
        THEN fn' = [fn EXCEPT !.pc = "call", !.via = "cut",
                              !.prompt = slice(fn.prompt, chunkSize)]
        ELSE fn' = [fn EXCEPT !.pc = "call", !.via = "chunk",
                              !.prompt = trimmedPrompt]
  /\ UNCHANGED <<inv, br>>

\* trimPrompt is called again on what it returned, with the same budget
TrimAgain ==
  /\ fn.op = "trim"
  /\ fn.pc = "ret"
  /\ fn.run = 1
  /\ fn' = NewTrim(fn.input, fn.result, fn.contextSize, 2, fn.result)
  /\ UNCHANGED <<inv, br>>

TrimNext ==
  \/ TrimEnter
  \/ \E chunks \in splitText(fn.prompt, chunkSizeOf(fn.prompt, fn.contextSize)) :
       TrimSplit(chunks)
  \/ TrimAgain

TrimSpec == TrimInit /\ [][TrimNext]_vars

\* a synchronous function: every step of a call is taken
TrimLive == TrimSpec /\ WF_vars(TrimNext)

\* ------------------------------------------------------------------ claims
Settled(i) == inv[i].status \in {"returned", "failed"}

Completed ==
  /\ \A i \in DOMAIN inv : Settled(i)
  /\ \A p \in DOMAIN br : br[p].state \in {"done", "rejected"}

\* some awaited external call is outstanding: a planner call, a crawl or a
\* synthesis (exactly the states in which a step is possible)
Outstanding ==
  \/ \E i \in DOMAIN inv : inv[i].status = "planning"
  \/ \E p \in DOMAIN br : br[p].state \in {"retrieving", "synthesizing"}

InFlightTotal == Cardinality({p \in DOMAIN br : InFlight(br[p])})

InFlightOf(i) == Cardinality({p \in Children(br, i) : InFlight(br[p])})

\* number of awaited external calls (planner, crawler, synthesizer) that have
\* returned or failed so far
CallsEnded ==
  Cardinality({i \in DOMAIN inv : inv[i].status # "planning"})
    + Cardinality({p \in DOMAIN br : br[p].crawl # "none"})
    + Cardinality({p \in DOMAIN br :
                     /\ br[p].crawl \in {"ok", "failed"}
                     /\ br[p].state # "synthesizing"})

\* C1: every invocation of deepResearch completes once the planner, crawler
\* and synthesizer calls it waits for have returned or failed.  Stated for
\* finite runs: (a) as long as an invocation or a branch task has not
\* settled, some awaited call is still outstanding, so nothing waits for a
\* limiter slot that no outstanding call can free; (b) the recursion is
\* finite: the depth of a recursive call is that of the top-level call minus
\* its level, and stays positive; (c) every step ends exactly one awaited
\* call, none is re-issued.
C1_Terminates ==
  /\ [](Completed \/ Outstanding)
  /\ [](\A i \in DOMAIN inv :
          i # <<>> => inv[i].depth = inv[<<>>].depth - Len(i) /\ inv[i].depth > 0)
  /\ [][CallsEnded' = CallsEnded + 1]_vars

\* C1 witness: a call tree of two levels has completed in which the branches
\* of the top-level call filled its limiter while a child call ran its own
\* branch.
C1_Witness ==
  /\ Completed
  /\ inv[<<>>].status = "returned"
  /\ Cardinality(Children(br, <<>>)) >= ConcurrencyLimit
  /\ \E p \in DOMAIN br : Len(p) = 2 /\ br[p].crawl # "none"

C3_BranchKeepsInput ==
  \A p \in DOMAIN br :
    (br[p].state = "done" /\ br[p].err = "none") =>
      /\ Range(inv[Front(p)].learnings) \cup Range(br[p].newLearnings)
           \subseteq Range(br[p].result.learnings)
      /\ Range(inv[Front(p)].visitedUrls) \cup Range(br[p].newUrls)
           \subseteq Range(br[p].result.visitedUrls)

\* C4 as stated: an error inside a branch, the failure of its recursive call
\* included, ends in the empty result of that branch; a research call fails
\* only when its own planner fails.
C4_BranchErrorsAbsorbed ==
  /\ \A p \in DOMAIN br : br[p].state # "rejected"
  /\ \A i \in DOMAIN inv : inv[i].status = "failed" => inv[i].cause = "planner"

\* C5: an invocation whose planner call failed has failed, has started no
\* branch task (so no retrieval and no synthesis) and has no result.
C5_PlanFailureFatal ==
  \A i \in DOMAIN inv :
    inv[i].cause = "planner" =>
      /\ inv[i].status = "failed"
      /\ Children(br, i) = {}
      /\ inv[i].res = EmptyResult

\* C5 witness: the planner of a recursive call has failed.
C5_Witness ==
  \E i \in DOMAIN inv : i # <<>> /\ inv[i].cause = "planner"

\* C6: a crawl that failed (process error or unparseable output) gives the
\* branch zero items and no error: the branch goes on to synthesis; and the
\* result a research call returns contains what each of its branches
\* returned.
C6_RetrievalFailureAbsorbed ==
  /\ \A p \in DOMAIN br :
       br[p].crawl = "failed" =>
         /\ br[p].newUrls = <<>>
         /\ br[p].err # "retrieval"
         /\ br[p].state \in {"synthesizing", "recursing", "done", "rejected"}
  /\ \A i \in DOMAIN inv :
       inv[i].status = "returned" =>
         \A p \in Children(br, i) :
           /\ Range(br[p].result.learnings) \subseteq Range(inv[i].res.learnings)
           /\ Range(br[p].result.visitedUrls)
                \subseteq Range(inv[i].res.visitedUrls)

\* C6 witness: a research call has returned; the crawl of one of its branches
\* failed, that branch still synthesized a learning, and another branch
\* contributed a learning and a URL.
C6_Witness ==
  \E i \in DOMAIN inv :
    /\ inv[i].status = "returned"
    /\ \E p, q \in Children(br, i) :
         /\ p # q
         /\ br[p].crawl = "failed"
         /\ br[p].newLearnings # <<>>
         /\ br[q].result.learnings # <<>>
         /\ br[q].result.visitedUrls # <<>>
         /\ Range(br[q].result.learnings) \subseteq Range(inv[i].res.learnings)

NoPlanFailure == \A i \in DOMAIN inv : inv[i].cause # "planner"

SynthFailureEmpty ==
  \A p \in DOMAIN br :
    br[p].err = "synthesis" =>
      /\ br[p].state = "done"
      /\ br[p].result = EmptyResult
      /\ p \notin DOMAIN inv

\* C7: if no planner call fails, the top-level call does not fail and
\* returns a result once the awaited calls have ended (as long as it has not
\* returned, some awaited call is outstanding), whatever the crawls and
\* syntheses do; a branch whose synthesis failed is done with the empty
\* result (none of the URLs retrieved for it) and does not run again.
C7_AlwaysReturns ==
  /\ [](NoPlanFailure =>
          /\ inv[<<>>].status # "failed"
          /\ inv[<<>>].status = "returned" \/ Outstanding)
  /\ []SynthFailureEmpty
  /\ [][\A p \in DOMAIN br : br[p].err = "synthesis" => br'[p] = br[p]]_vars

\* C7 witness: the top-level call has returned although a synthesis failed in
\* a branch that had retrieved a URL, and a recursive call was made.
C7_Witness ==
  /\ inv[<<>>].status = "returned"
  /\ NoPlanFailure
  /\ \E p \in DOMAIN br : br[p].err = "synthesis" /\ br[p].newUrls # <<>>
  /\ \E i \in DOMAIN inv : i # <<>>

\* C8: the learnings and the visitedUrls a research call returns hold no
\* entry twice.
C8_NoDuplicates ==
  \A i \in DOMAIN inv :
    inv[i].status = "returned" =>
      NoDup(inv[i].res.learnings) /\ NoDup(inv[i].res.visitedUrls)

\* C8 witness: a research call has returned whose branches returned the same
\* learning and the same URL more than once.
C8_Witness ==
  \E i \in DOMAIN inv :
    /\ inv[i].status = "returned"
    /\ ~NoDup(FlatMap(br, i, Cardinality(Children(br, i)), "learnings"))
    /\ ~NoDup(FlatMap(br, i, Cardinality(Children(br, i)), "visitedUrls"))

\* C9: a recursive call has the depth of its parent minus 1 and the breadth
\* ceil(parent breadth / 2): never more than the parent's, and at least 1
\* when the parent's is.
C9_ChildBudget ==
  \A i \in DOMAIN inv :
    i # <<>> =>
      LET pb == inv[Front(i)].breadth
          cb == inv[i].breadth
      IN /\ inv[i].depth = inv[Front(i)].depth - 1
         /\ 2 * cb >= pb /\ 2 * cb <= pb + 1
         /\ cb <= pb
         /\ (pb >= 1 => cb >= 1)

\* C9 witness: a parent of odd breadth 7 has made a recursive call of
\* breadth 4.
C9_Witness ==
  \E i \in DOMAIN inv :
    i # <<>> /\ inv[Front(i)].breadth = 7 /\ inv[i].breadth = 4

\* C10: a branch of a call whose depth minus 1 is not positive never
\* recurses; every recursive call has a depth > 0.
C10_NoRecursionAtDepthZero ==
  /\ \A p \in DOMAIN br :
       inv[Front(p)].depth - 1 <= 0 =>
         p \notin DOMAIN inv /\ br[p].state # "recursing"
  /\ \A i \in DOMAIN inv : i # <<>> => inv[i].depth > 0

\* C10 witness: a call of depth 0 has returned the terminal result of a
\* branch that crawled and synthesized once.
C10_Witness ==
  /\ inv[<<>>].depth = 0
  /\ inv[<<>>].status = "returned"
  /\ DOMAIN inv = {<<>>}
  /\ \E p \in DOMAIN br :
       br[p].state = "done" /\ br[p].crawl = "ok" /\ br[p].newLearnings # <<>>

\* C11: an invocation whose planner returned zero queries (it is past
\* planning without a planner failure and has no branch task) has returned
\* {learnings: [], visitedUrls: []}, whatever its prior learnings and URLs;
\* it is never seen waiting, and no crawl, synthesis or recursive call was
\* made for it.
C11_EmptyPlanReturnsEmpty ==
  \A i \in DOMAIN inv :
    (inv[i].status # "planning" /\ inv[i].cause # "planner"
       /\ Children(br, i) = {}) =>
      /\ inv[i].status = "returned"
      /\ inv[i].res = EmptyResult
      /\ \A j \in DOMAIN inv : j # <<>> => Front(j) # i

\* C11 witness: a recursive call that was given a prior learning and a prior
\* URL had an empty plan and returned the empty result.
C11_Witness ==
  \E i \in DOMAIN inv :
    /\ i # <<>>
    /\ inv[i].learnings # <<>> /\ inv[i].visitedUrls # <<>>
    /\ inv[i].status = "returned"
    /\ Children(br, i) = {}
    /\ inv[i].res = EmptyResult

NoCallFailed(i) ==
  \A p \in Children(br, i) : br[p].crawl = "ok" /\ br[p].err = "none"

\* C12: a call of depth 1 with at least one planned query and no failed
\* call returns, as sets, exactly its prior learnings plus the learnings
\* synthesized for every planned query, and exactly its prior URLs plus the
\* source URLs of all retrieved items; with C8, the lists are as long as
\* these sets are large.
C12_DepthOneUnion ==
  \A i \in DOMAIN inv :
    (inv[i].depth = 1 /\ inv[i].status = "returned"
       /\ Children(br, i) # {} /\ NoCallFailed(i)) =>
      LET ls == Range(inv[i].learnings)
                  \cup UNION {Range(br[p].newLearnings) : p \in Children(br, i)}
          us == Range(inv[i].visitedUrls)
                  \cup UNION {Range(br[p].newUrls) : p \in Children(br, i)}
      IN /\ Range(inv[i].res.learnings) = ls
         /\ Range(inv[i].res.visitedUrls) = us
         /\ Len(inv[i].res.learnings) = Cardinality(ls)
         /\ Len(inv[i].res.visitedUrls) = Cardinality(us)

\* C12 witness: a call of depth 1 returned two learnings and a URL that came
\* from two different branches, none of which failed.
C12_Witness ==
  \E i \in DOMAIN inv :
    /\ inv[i].depth = 1 /\ inv[i].status = "returned" /\ NoCallFailed(i)
    /\ \E p, q \in Children(br, i) :
         /\ Last(p) < Last(q)
         /\ br[p].newLearnings = <<"l1", "l2">> /\ br[p].newUrls = <<>>
         /\ br[q].newLearnings = <<>> /\ br[q].newUrls = <<"u1">>
    /\ Len(inv[i].res.learnings) = 2 /\ Len(inv[i].res.visitedUrls) = 1

\* C18: the prior learnings and URLs of a recursive call are exactly those
\* of its parent followed by the learnings and source URLs discovered by the
\* one branch that made the call (so nothing that only a sibling branch
\* discovered); and the priors an invocation was given never change.
C18_ChildPriors ==
  /\ [](\A i \in DOMAIN inv :
          i # <<>> =>
            /\ inv[i].learnings = inv[Front(i)].learnings \o br[i].newLearnings
            /\ inv[i].visitedUrls = inv[Front(i)].visitedUrls \o br[i].newUrls)
  /\ [][\A i \in DOMAIN inv :
          /\ i \in DOMAIN inv'
          /\ inv'[i].learnings = inv[i].learnings
          /\ inv'[i].visitedUrls = inv[i].visitedUrls]_vars

\* C18 witness: a parent that itself had a prior learning and a prior URL
\* made a recursive call from a branch that discovered two learnings and a
\* URL: the child's priors are the parent's with these appended.
C18_Witness ==
  \E i \in DOMAIN inv :
    /\ i # <<>>
    /\ inv[Front(i)].learnings = <<"l1">>
    /\ inv[Front(i)].visitedUrls = <<"u1">>
    /\ br[i].newLearnings = <<"l1", "l2">> /\ br[i].newUrls = <<"u1">>
    /\ inv[i].learnings = <<"l1", "l1", "l2">>
    /\ inv[i].visitedUrls = <<"u1", "u1">>

\* C19: the branch tasks of an invocation are started in the order of the
\* planner's output (a task is never started before an earlier one); they
\* finish in any order; an invocation that has returned has all its branch
\* tasks finished, and what it returned is, as sets, the union of what its
\* branches returned, whatever the order in which they finished.
C19_OrderedStartJoinedReturn ==
  /\ \A p, q \in DOMAIN br :
       (Front(p) = Front(q) /\ Last(p) < Last(q) /\ br[q].state # "queued")
         => br[p].state # "queued"
  /\ \A i \in DOMAIN inv :
       inv[i].status = "returned" =>
         /\ \A p \in Children(br, i) : br[p].state = "done"
         /\ Range(inv[i].res.learnings) =
              UNION {Range(br[p].result.learnings) : p \in Children(br, i)}
         /\ Range(inv[i].res.visitedUrls) =
              UNION {Range(br[p].result.visitedUrls) : p \in Children(br, i)}

\* C19 witness: the second branch task of an invocation has finished with a
\* learning and a URL while the first, started before it, is still running;
\* the third, queued behind them, has been started.
C19_Witness ==
  \E i \in DOMAIN inv :
    /\ inv[i].status = "running"
    /\ Append(i, 3) \in DOMAIN br
    /\ InFlight(br[Append(i, 1)])
    /\ br[Append(i, 2)].state = "done"
    /\ br[Append(i, 2)].result.learnings # <<>>
    /\ br[Append(i, 2)].result.visitedUrls # <<>>
    /\ br[Append(i, 3)].state = "retrieving"

QueuedOf(i) == {p \in Children(br, i) : br[p].state = "queued"}

\* C20: an invocation never has more than ConcurrencyLimit of its own branch
\* tasks running, and has tasks queued only while that many are running; a
\* branch task that made a recursive call keeps running until that call has
\* settled; and a queued task leaves the queue only in a step in which a
\* running branch task of the same invocation finishes.
C20_QueuedWaitsForSibling ==
  /\ [](\A i \in DOMAIN inv :
          /\ InFlightOf(i) <= ConcurrencyLimit
          /\ QueuedOf(i) # {} => InFlightOf(i) = ConcurrencyLimit)
  /\ [](\A p \in DOMAIN br :
          (p \in DOMAIN inv /\ ~Settled(p)) => br[p].state = "recursing")
  /\ [][\A p \in DOMAIN br :
          (br[p].state = "queued" /\ br'[p].state # "queued") =>
            \E q \in Children(br, Front(p)) :
              /\ InFlight(br[q])
              /\ br'[q].state \in {"done", "rejected"}]_vars

\* C20 witness: the third branch task of an invocation is queued while the
\* first waits for its recursive call, which has not settled, and the
\* second is running.
C20_Witness ==
  \E i \in DOMAIN inv :
    /\ Append(i, 3) \in DOMAIN br
    /\ br[Append(i, 3)].state = "queued"
    /\ br[Append(i, 1)].state = "recursing"
    /\ ~Settled(Append(i, 1))
    /\ InFlight(br[Append(i, 2)])

\* C13: the planner returns at most numQueries queries, also when the
\* generation call answers more; the k-th returned query is the k-th
\* answered one, as a {query, researchGoal} pair: an object as it is, a bare
\* string with the default research goal; and an invocation starts one
\* branch task per returned query, so at most numQueries (its breadth).
C13_PlannerBounded ==
  fn.pc # "generating" =>
    /\ Len(fn.serpQueries) <= fn.numQueries
    /\ Len(fn.serpQueries) = Min(Len(fn.raw), fn.numQueries)
    /\ \A k \in 1..Len(fn.serpQueries) :
         /\ DOMAIN fn.serpQueries[k] = {"query", "researchGoal"}
         /\ fn.serpQueries[k].query = k
         /\ fn.serpQueries[k].researchGoal =
              IF fn.raw[k] = "str" THEN DefaultGoal ELSE "goal"
    /\ fn.pc = "started" =>
         fn.tasks = Len(fn.serpQueries) /\ fn.tasks <= fn.numQueries

\* C13 witness: the generation call answered three queries, the second a
\* bare string, for numQueries = 2: two were returned, two tasks started.
C13_Witness ==
  /\ fn.pc = "started"
  /\ fn.numQueries = 2
  /\ fn.raw = <<"obj", "str", "obj">>
  /\ fn.tasks = 2
  /\ fn.serpQueries[2] = [query |-> 2, researchGoal |-> DefaultGoal]

\* C14: trimPrompt(text, n) returns a non-empty text whose token count is at
\* most n unchanged, and returns '' for ''.
C14_IdentityWithinBudget ==
  (fn.run = 1 /\ fn.pc = "ret") =>
    /\ (fn.input # Empty /\ encodeLength(fn.input) <= fn.contextSize)
         => fn.result = fn.input
    /\ fn.input = Empty => fn.result = Empty

\* C14 witness: a text longer than MinChunkSize characters and longer than
\* the budget counted in characters, but of exactly as many tokens as the
\* budget, was returned unchanged.
C14_Witness ==
  /\ fn.run = 1 /\ fn.pc = "ret"
  /\ fn.input.len > MinChunkSize
  /\ fn.input.len > fn.contextSize
  /\ encodeLength(fn.input) = fn.contextSize
  /\ fn.result = fn.input

\* C15 as stated: trimPrompt never returns '' for a non-empty text, whatever
\* the budget and whatever the splitter returns.
C15_NeverEmpty ==
  (fn.pc = "ret" /\ fn.input # Empty) => fn.result # Empty

\* C16: calling trimPrompt on its own result with the same budget returns
\* that result.
C16_Idempotent ==
  (fn.run = 2 /\ fn.pc = "ret") => fn.result = fn.first

\* C16 witness: the first result was the cut to MinChunkSize characters of a
\* longer text and still counts more tokens than the budget; the second
\* call returned it again.
C16_Witness ==
  /\ fn.run = 2 /\ fn.pc = "ret"
  /\ fn.input.len > MinChunkSize
  /\ fn.first.len = MinChunkSize
  /\ encodeLength(fn.first) > fn.contextSize
  /\ fn.result = fn.first

\* C17: every call of trimPrompt returns; a call that goes past the
\* identity and floor cases calls itself on a strictly shorter text, be it
\* the splitter's first chunk or the raw cut to chunkSize.
C17_TrimTerminates ==
  /\ [][fn.pc = "split" =>
          fn'.pc = "call" /\ fn'.prompt.len < fn.prompt.len]_vars
  /\ (fn.pc = "call") ~> (fn.pc = "ret")

\* C17 witness: a call has returned after the splitter made no progress and
\* the raw cut was passed to the recursive call.
C17_Witness ==
  /\ fn.run = 1 /\ fn.pc = "ret"
  /\ fn.via = "cut"
  /\ fn.result # Empty
  /\ fn.result.len < fn.input.len

\* the learnings the synthesis calls of the call tree have returned, and the
\* source URLs of the items its crawls have returned
Synthesized == UNION {Range(br[p].newLearnings) : p \in DOMAIN br}

Retrieved ==
  UNION {{br[p].crawled[k].sourceURL : k \in 1..Len(br[p].crawled)} :
           p \in DOMAIN br}

FromTree(r) ==
  /\ Range(r.learnings) \subseteq Range(inv[<<>>].learnings) \cup Synthesized
  /\ Range(r.visitedUrls) \subseteq Range(inv[<<>>].visitedUrls) \cup Retrieved

\* C21: every learning in the result of a research call (and in the result
\* of a branch, and in the priors handed to a recursive call) is a prior
\* learning of the top-level call or was returned by a synthesis call of the
\* call tree; every visited URL is a prior URL of the top-level call or the
\* sourceURL of an item a crawl of the call tree returned.
C21_Provenance ==
  /\ \A i \in DOMAIN inv : FromTree(inv[i].res) /\ FromTree(inv[i])
  /\ \A p \in DOMAIN br : FromTree(br[p].result)

\* C21 witness: the top-level call has returned a learning and a URL that
\* came up through a recursive call, while the learning "l2" was never
\* synthesized in the tree and is not in the result.
C21_Witness ==
  /\ inv[<<>>].status = "returned"
  /\ inv[<<>>].res.learnings = <<"l1">>
  /\ inv[<<>>].res.visitedUrls = <<"u1">>
  /\ "l2" \notin Synthesized
  /\ \E i \in DOMAIN inv : i # <<>> /\ inv[i].status = "returned"
                                   /\ inv[i].res.learnings = <<"l1">>
====
